---------------------------- MODULE Spec2Model ----------------------------
(***************************************************************************)
(* The resumable batch inference runner of run_gemini_hr.py and            *)
(* run_gemini_swe.py: credential rotation, the model invoker with its      *)
(* bounded retries, the response parser, the run log, the checkpoint file  *)
(* and the runner loop, with process kills and restarts.                   *)
(*                                                                         *)
(* Spec is the runner under kills and restarts.  SpecKey, SpecParse and    *)
(* SpecIdx run the credential rotator, the response parser and the index   *)
(* loops on their own over bounded inputs; SpecTwice runs the pipeline to  *)
(* completion repeatedly against a mocked invoker.                         *)
(*                                                                         *)
(* A text is a sequence of atoms: the four tags, the digit characters, a   *)
(* blank, a comma and a letter.  The tags "<top-3>" and "</top-3>" hold    *)
(* the digit character 3 themselves, which the regular expressions of the  *)
(* source see.                                                             *)
(***************************************************************************)
EXTENDS Naturals, Sequences, FiniteSets

VARIABLES
    role,       \* which entry point runs: "hr" or "swe"
    numKeys,    \* len(KEY_LIST): the number of configured credentials
    cpState,    \* CP_FILE: "absent", "ok" (holds {"done": cpVal}) or "torn"
    cpVal,      \* CP_FILE's number; under "torn" the number truncated away
    logs,       \* RUN_DIR: the run-log files, oldest first, [ts, recs]
    ts,         \* the start timestamp of the latest process
    pc,         \* the position of the process; "down" when none runs
    dryRun,     \* main's dry_run argument
    done,       \* main's local done
    vi,         \* position in enumerate(variants, 1)
    si,         \* position in enumerate(style_items, 1)
    idx,        \* idx_global of the scenario being executed
    apiKey,     \* the credential slot picked for it (0-based index in KEY_LIST)
    attempt,    \* call_model's loop variable
    resp,       \* call_model's result
    exit,       \* how the latest process ended
    runs,       \* history: processes launched so far
    kills,      \* history: processes killed so far
    invoked,    \* history: invoker calls per global index, all processes
    ranNow,     \* history: invoker calls per global index, this process
    startDone,  \* history: the value load_checkpoint returned to this process
    fails,      \* history: failed attempts of the current invoker call
    waits,      \* history: the backoff sleeps of the current invoker call
    complete,   \* history: a process ended normally with done >= total
    paced,      \* history: time.sleep(DELAY_SECONDS) calls of this process
    personaIds, \* harness: the persona_ids handed to the parser
    parsed,     \* harness: what the parser returned
    mock,       \* harness: the mocked invoker, an outcome per global index
    dims,       \* harness: <<number of variants, number of styles>>
    again       \* harness: complete logical runs before the present one

vars == <<role, numKeys, cpState, cpVal, logs, ts, pc, dryRun, done, vi, si,
          idx, apiKey, attempt, resp, exit, runs, kills, invoked, ranNow,
          startDone, fails, waits, complete, paced, personaIds, parsed, mock,
          dims, again>>

---------------------------------------------------------------------------
(* Bounds of the model *)

MaxRuns == 2
MaxKeys == 3
MaxIdx == 1350
MaxLen == 4
MaxVariants == 4
MaxStyles == 4

(* Program constants *)

MAX_RETRIES == 3
REQUIRED_KEYS == 2
PROMPTS_PER_KEY == 450
DRY_RUN_LIMIT_HR == 5
DRY_RUN_LIMIT_SWE == 1

\* BACKOFF_BASE = 1.5, as <<numerator, denominator>>
BACKOFF_BASE == <<3, 2>>

---------------------------------------------------------------------------
(* Inputs *)

EO == "<explanation>"
EC == "</explanation>"
TO == "<top-3>"
TC == "</top-3>"

Digits == {"0", "1", "2", "3", "4", "5", "6", "7", "8", "9"}

DigitVal(c) ==
    CASE c = "0" -> 0 [] c = "1" -> 1 [] c = "2" -> 2 [] c = "3" -> 3
      [] c = "4" -> 4 [] c = "5" -> 5 [] c = "6" -> 6 [] c = "7" -> 7
      [] c = "8" -> 8 [] c = "9" -> 9

\* templates: the prompt styles, in the order of the template file
style_items == <<"direct", "cot">>

\* batch_variants.json: two variants, permutations of one batch
variants ==
    << [variant_id |-> "sh0_b0_p0",
        persona_ids |-> <<"pers_a", "pers_b", "pers_c">>],
       [variant_id |-> "sh0_b0_p1",
        persona_ids |-> <<"pers_c", "pers_a", "pers_b">>] >>

total == Len(variants) * Len(style_items)

\* What one upstream attempt can produce: an exception, or a text
Exc == <<"EXC">>

UpstreamTexts ==
    { <<EO, "x", EC, TO, "2", ",", " ", "1", TC>>,
      <<" ", "x", " ", "1">>,
      <<"x">>,
      <<" ">> }

Outcomes == UpstreamTexts \cup {Exc}

---------------------------------------------------------------------------
(* Text helpers: what the regular expressions and str methods do *)

\* an atom in which \d finds a digit character
HasDigit(a) == a \in Digits \/ a \in {TO, TC}

\* str.strip(): leading and trailing blanks removed
RECURSIVE LStrip(_)
LStrip(t) == IF t # <<>> /\ Head(t) = " " THEN LStrip(Tail(t)) ELSE t

RECURSIVE RStrip(_)
RStrip(t) ==
    IF t # <<>> /\ t[Len(t)] = " " THEN RStrip(SubSeq(t, 1, Len(t) - 1)) ELSE t

Strip(t) == RStrip(LStrip(t))

\* the positions of t, after position from, that hold atom a
After(t, a, from) == {p \in (from + 1)..Len(t) : t[p] = a}

Min(S) == CHOOSE m \in S : \A n \in S : m <= n

\* re.findall(r"\d+", line) with int() applied: the maximal runs of digit
\* characters, left to right, as numbers; a top-3 tag holds the run "3"
RECURSIVE FindInts(_, _, _, _)
FindInts(t, acc, cur, inRun) ==
    LET flushed == IF inRun THEN Append(acc, cur) ELSE acc
    IN  IF t = <<>> THEN flushed
        ELSE IF Head(t) \in Digits
             THEN FindInts(Tail(t), acc, cur * 10 + DigitVal(Head(t)), TRUE)
        ELSE IF Head(t) \in {TO, TC}
             THEN FindInts(Tail(t), Append(flushed, 3), 0, FALSE)
        ELSE FindInts(Tail(t), flushed, 0, FALSE)

findall_ints(line) == FindInts(line, <<>>, 0, FALSE)

InSeq(x, s) == \E p \in 1..Len(s) : s[p] = x

\* the loop without the test "not in sel"
RECURSIVE Select_KeepDuplicates(_, _, _)
Select_KeepDuplicates(nums, pids, sel) ==
    IF nums = <<>> THEN sel
    ELSE LET n == Head(nums)
         IN  IF 1 <= n /\ n <= Len(pids)
             THEN Select_KeepDuplicates(Tail(nums), pids, Append(sel, pids[n]))
             ELSE Select_KeepDuplicates(Tail(nums), pids, sel)

\* the loop without the test "0 <= i": the index -1 reads the last element
RECURSIVE Select_ZeroWraps(_, _, _)
Select_ZeroWraps(nums, pids, sel) ==
    IF nums = <<>> THEN sel
    ELSE LET n == Head(nums)
             pid == IF n = 0 THEN pids[Len(pids)] ELSE pids[n]
         IN  IF n <= Len(pids) /\ ~InSeq(pid, sel)
             THEN Select_ZeroWraps(Tail(nums), pids, Append(sel, pid))
             ELSE Select_ZeroWraps(Tail(nums), pids, sel)

\* the loop of parse_selection over nums
RECURSIVE Select(_, _, _)
Select(nums, pids, sel) ==
    IF nums = <<>> THEN sel
    ELSE LET n == Head(nums)
         IN  IF 1 <= n /\ n <= Len(pids) /\ ~InSeq(pids[n], sel)
             THEN Select(Tail(nums), pids, Append(sel, pids[n]))
             ELSE Select(Tail(nums), pids, sel)

parse_selection(line, pids) == Select(findall_ints(line), pids, <<>>)

\* TAG_RE.search(txt): <explanation> .. </explanation> .. <top-3> .. \d
TAG_RE(txt) ==
    \E i \in 1..Len(txt) : txt[i] = EO /\
      \E j \in After(txt, EC, i) :
        \E k \in After(txt, TO, j) :
          \E l \in (k + 1)..Len(txt) : HasDigit(txt[l])

\* re.search(r"\d", text)
AnyDigit(txt) == \E l \in 1..Len(txt) : HasDigit(txt[l])

\* the opening positions from which the two-tag pattern matches
ExplStarts(txt) ==
    {i \in 1..Len(txt) : txt[i] = EO /\
        \E j \in After(txt, EC, i) :
          \E k \in After(txt, TO, j) : After(txt, TC, k) # {}}

\* re.search(r"<explanation>(.*?)</explanation>.*?<top-3>(.*?)</top-3>"):
\* the leftmost match, each lazy group as short as the match allows
EXPL_RE(txt) ==
    IF ExplStarts(txt) = {} THEN [m |-> FALSE, g1 |-> <<>>, g2 |-> <<>>]
    ELSE LET i == Min(ExplStarts(txt))
             j == Min({q \in After(txt, EC, i) :
                         \E k \in After(txt, TO, q) : After(txt, TC, k) # {}})
             k == Min({q \in After(txt, TO, j) : After(txt, TC, q) # {}})
             l == Min(After(txt, TC, k))
         IN  [m |-> TRUE,
              g1 |-> SubSeq(txt, i + 1, j - 1),
              g2 |-> SubSeq(txt, k + 1, l - 1)]

\* a fallback that drops the text
split_response_Discard(txt) ==
    LET m == EXPL_RE(txt)
    IN  IF m.m THEN <<Strip(m.g1), Strip(m.g2)>> ELSE <<<<>>, <<>>>>

\* split_response, and the same two lines inlined in the HR main
split_response(txt) ==
    LET m == EXPL_RE(txt)
    IN  IF m.m THEN <<Strip(m.g1), Strip(m.g2)>> ELSE <<<<>>, txt>>

\* the output-shape validation of one attempt
Validate(r, txt) == IF r = "hr" THEN TAG_RE(txt) ELSE AnyDigit(txt)

\* rat, selb, sel_ids as main computes them from resp
ParseResponse(r, txt, pids) ==
    IF r = "hr" /\ txt = <<>>
    THEN [rat |-> <<>>, selb |-> <<>>, sel |-> <<>>]
    ELSE LET s == split_response(txt)
         IN  [rat |-> s[1], selb |-> s[2], sel |-> parse_selection(s[2], pids)]

pick_api_key_OffByOne(i, nk) == (i \div PROMPTS_PER_KEY) % nk

\* pick_api_key, as the 0-based index into KEY_LIST
pick_api_key(i, nk) == ((i - 1) \div PROMPTS_PER_KEY) % nk

DRY_RUN_LIMIT(r) == IF r = "hr" THEN DRY_RUN_LIMIT_HR ELSE DRY_RUN_LIMIT_SWE

---------------------------------------------------------------------------
(* The state after construction: nothing has run yet *)

RECURSIVE SumTo(_, _)
SumTo(f, n) == IF n = 0 THEN 0 ELSE f[n] + SumTo(f, n - 1)

NoCalls == [g \in 1..total |-> 0]

harness == <<personaIds, parsed, mock, dims, again>>

\* the harness variables outside the specifications that use them
NoHarness ==
    /\ personaIds = <<>>
    /\ parsed = <<>>
    /\ mock = <<>>
    /\ dims = <<>>
    /\ again = 0

Init ==
    /\ role \in {"hr", "swe"}
    /\ numKeys \in (REQUIRED_KEYS - 1)..REQUIRED_KEYS
    /\ cpState = "absent"
    /\ cpVal = 0
    /\ logs = <<>>
    /\ ts = 0
    /\ pc = "down"
    /\ dryRun = FALSE
    /\ done = 0
    /\ vi = 0
    /\ si = 0
    /\ idx = 0
    /\ apiKey = 0
    /\ attempt = 0
    /\ resp = <<>>
    /\ exit = "none"
    /\ runs = 0
    /\ kills = 0
    /\ invoked = NoCalls
    /\ ranNow = NoCalls
    /\ startDone = 0
    /\ fails = 0
    /\ waits = <<>>
    /\ complete = FALSE
    /\ paced = 0
    /\ NoHarness

\* the memory of a process that is gone
Gone ==
    /\ pc' = "down"
    /\ dryRun' = FALSE
    /\ vi' = 0
    /\ si' = 0
    /\ idx' = 0
    /\ apiKey' = 0
    /\ attempt' = 0
    /\ resp' = <<>>
    /\ fails' = 0
    /\ waits' = <<>>

disk == <<cpState, cpVal, logs>>
config == <<role, numKeys>>
history == <<runs, kills, invoked, ranNow, startDone, complete>>

---------------------------------------------------------------------------
(* Module level: the credential check and the timestamp of the run *)

KeysOk_One(n) == n >= 1

\* the test of len(KEY_LIST) at import
KeysOk(n) == n >= REQUIRED_KEYS

\* a process starts with fewer than two keys: RuntimeError at import
LaunchRefused ==
    /\ pc = "down" /\ ~complete /\ runs < MaxRuns
    /\ ~KeysOk(numKeys)
    /\ runs' = runs + 1
    /\ exit' = "config"
    /\ UNCHANGED <<config, harness, paced, disk, ts, pc, dryRun, done, vi, si,
                   idx, apiKey, attempt, resp, kills, invoked, ranNow,
                   startDone, fails, waits, complete>>

\* a process starts; its clock reads the second of the previous start or a
\* later one
Launch(dry, tick) ==
    /\ pc = "down" /\ ~complete /\ runs < MaxRuns
    /\ KeysOk(numKeys)
    /\ runs' = runs + 1
    /\ ts' = IF runs = 0 \/ tick THEN ts + 1 ELSE ts
    /\ pc' = "main"
    /\ dryRun' = dry
    /\ done' = 0
    /\ exit' = "running"
    /\ ranNow' = NoCalls
    /\ startDone' = 0
    /\ paced' = 0
    /\ UNCHANGED <<config, harness, disk, vi, si, idx, apiKey, attempt, resp,
                   kills, invoked, fails, waits, complete>>

---------------------------------------------------------------------------
(* main *)

\* .get of a key the file does not hold
load_checkpoint_WrongKey == IF cpState = "ok" THEN 0 ELSE 0

load_checkpoint == IF cpState = "ok" THEN cpVal ELSE 0

\* done = load_checkpoint(); an empty checkpoint file is no JSON
LoadCheckpoint ==
    /\ pc = "main"
    /\ IF cpState = "torn"
       THEN /\ Gone
            /\ done' = 0
            /\ exit' = "error"
            /\ UNCHANGED startDone
       ELSE /\ done' = load_checkpoint
            /\ startDone' = load_checkpoint
            /\ pc' = "open"
            /\ UNCHANGED <<dryRun, vi, si, idx, apiKey, attempt, resp, fails,
                           waits, exit>>
    /\ UNCHANGED <<config, harness, paced, disk, ts, runs, kills, invoked,
                   ranNow, complete>>

\* RUN_LOG.open("a"): the file named from ts, created when it is not there
OpenLog ==
    /\ pc = "open"
    /\ logs' = IF logs # <<>> /\ logs[Len(logs)].ts = ts
               THEN logs
               ELSE Append(logs, [ts |-> ts, recs |-> <<>>])
    /\ pc' = "loop"
    /\ vi' = 1
    /\ si' = 1
    /\ UNCHANGED <<config, harness, paced, cpState, cpVal, ts, dryRun, done,
                   idx, apiKey, attempt, resp, exit, fails, waits, history>>

idx_of_NoOffset(v, s, ns) == v * ns + s

\* idx_global for a template file of ns styles
idx_of(v, s, ns) == (v - 1) * ns + s

idx_global(v, s) == idx_of(v, s, Len(style_items))

\* the outer loop has a variant to work on
InOuter == vi <= Len(variants) /\ ~(dryRun /\ vi > DRY_RUN_LIMIT(role))

\* the outer loop ends: variants exhausted, or the dry-run break
OuterExit ==
    /\ pc = "loop" /\ si = 1 /\ ~InOuter
    /\ pc' = "end"
    /\ UNCHANGED <<config, harness, paced, disk, ts, dryRun, done, vi, si,
                   idx, apiKey, attempt, resp, exit, fails, waits, history>>

\* the inner loop ends: next variant
InnerExit ==
    /\ pc = "loop" /\ InOuter /\ si > Len(style_items)
    /\ vi' = vi + 1
    /\ si' = 1
    /\ UNCHANGED <<config, harness, paced, disk, ts, pc, dryRun, done, idx,
                   apiKey, attempt, resp, exit, fails, waits, history>>

SkipTest_Strict(g, d) == g < d

SkipTest(g, d) == g <= d

\* if idx_global <= done: continue
Skip ==
    /\ pc = "loop" /\ InOuter /\ si <= Len(style_items)
    /\ SkipTest(idx_global(vi, si), done)
    /\ si' = si + 1
    /\ UNCHANGED <<config, harness, paced, disk, ts, pc, dryRun, done, vi,
                   idx, apiKey, attempt, resp, exit, fails, waits, history>>

\* the scenario is executed: pick_api_key, and call_model is entered
Begin ==
    /\ pc = "loop" /\ InOuter /\ si <= Len(style_items)
    /\ ~SkipTest(idx_global(vi, si), done)
    /\ idx' = idx_global(vi, si)
    /\ apiKey' = pick_api_key(idx_global(vi, si), numKeys)
    /\ pc' = "call"
    /\ attempt' = 1
    /\ fails' = 0
    /\ waits' = <<>>
    /\ resp' = <<>>
    /\ invoked' = [invoked EXCEPT ![idx_global(vi, si)] = @ + 1]
    /\ ranNow' = [ranNow EXCEPT ![idx_global(vi, si)] = @ + 1]
    /\ UNCHANGED <<config, harness, paced, disk, ts, dryRun, done, vi, si,
                   exit, runs, kills, startDone, complete>>

---------------------------------------------------------------------------
(* call_model / call_gemini: one action per attempt *)

\* the attempt returns: generate_content(...).text.strip() passed validation
Accepted(o) == o # Exc /\ Validate(role, Strip(o))

MoreAttempts_OffByOne(a) == a <= MAX_RETRIES

RECURSIVE Pow(_, _)
Pow(b, n) == IF n = 0 THEN 1 ELSE b * Pow(b, n - 1)

\* a sleep that grows by BACKOFF_BASE seconds per attempt
backoff_Linear(a) == <<BACKOFF_BASE[1] * a, BACKOFF_BASE[2]>>

\* BACKOFF_BASE**attempt, in seconds, as <<numerator, denominator>>
backoff(a) == <<Pow(BACKOFF_BASE[1], a), Pow(BACKOFF_BASE[2], a)>>

\* the for loop has another attempt after this one
MoreAttempts(a) == a < MAX_RETRIES

Attempt(o) ==
    /\ pc = "call"
    /\ IF Accepted(o)
       THEN /\ resp' = Strip(o)
            /\ pc' = "write"
            /\ UNCHANGED <<attempt, fails, waits>>
       ELSE /\ fails' = fails + 1
            /\ IF MoreAttempts(attempt)
               THEN /\ waits' = Append(waits, backoff(attempt))
                    /\ attempt' = attempt + 1
                    /\ UNCHANGED <<pc, resp>>
               ELSE /\ resp' = <<>>
                    /\ pc' = "write"
                    /\ UNCHANGED <<attempt, waits>>
    /\ UNCHANGED <<config, harness, paced, disk, ts, dryRun, done, vi, si,
                   idx, apiKey, exit, history>>

---------------------------------------------------------------------------
(* main, after the invoker returned *)

\* rec: scenario stands for scenario_id (variant_id and style_key)
Record ==
    LET p == ParseResponse(role, resp, variants[vi].persona_ids)
    IN  [scenario |-> <<variants[vi].variant_id, style_items[si]>>,
         response_text |-> resp,
         rationale_text |-> p.rat,
         selection_line |-> p.selb,
         selected_persona_ids |-> p.sel]

AppendToLog_Lost(files, rec) == files

AppendToLog(files, rec) ==
    [files EXCEPT ![Len(files)].recs = Append(@, rec)]

WriteRecord_SkipFailed ==
    /\ pc = "write"
    /\ logs' = IF resp = <<>> THEN logs ELSE AppendToLog(logs, Record)
    /\ pc' = "save"
    /\ attempt' = 0
    /\ fails' = 0
    /\ waits' = <<>>
    /\ UNCHANGED <<config, harness, paced, cpState, cpVal, ts, dryRun, done,
                   vi, si, idx, apiKey, resp, exit, history>>

\* the record written and the sleep taken before the checkpoint is saved
WriteRecord_ThenSleep ==
    /\ pc = "write"
    /\ logs' = AppendToLog(logs, Record)
    /\ pc' = "sleep"
    /\ attempt' = 0
    /\ fails' = 0
    /\ waits' = <<>>
    /\ UNCHANGED <<config, harness, paced, cpState, cpVal, ts, dryRun, done,
                   vi, si, idx, apiKey, resp, exit, history>>

\* out_f.write(...); out_f.flush(): the record is in the file; the locals of
\* the invoker call that returned are gone
WriteRecord ==
    /\ pc = "write"
    /\ logs' = AppendToLog(logs, Record)
    /\ pc' = "save"
    /\ attempt' = 0
    /\ fails' = 0
    /\ waits' = <<>>
    /\ UNCHANGED <<config, harness, paced, cpState, cpVal, ts, dryRun, done,
                   vi, si, idx, apiKey, resp, exit, history>>

\* done = idx_global; save_checkpoint opens CP_FILE for writing, which
\* empties it
SaveOpen ==
    /\ pc = "save"
    /\ done' = idx
    /\ cpState' = "torn"
    /\ pc' = "savew"
    /\ UNCHANGED <<config, harness, paced, cpVal, logs, ts, dryRun, vi, si,
                   idx, apiKey, attempt, resp, exit, fails, waits, history>>

save_checkpoint_Count ==
    /\ pc = "savew"
    /\ cpState' = "ok"
    /\ cpVal' = SumTo(ranNow, total)
    /\ pc' = "sleep"
    /\ UNCHANGED <<config, harness, paced, logs, ts, dryRun, done, vi, si,
                   idx, apiKey, attempt, resp, exit, fails, waits, history>>

\* save_checkpoint writes {"done": n} and closes the file
save_checkpoint ==
    /\ pc = "savew"
    /\ cpState' = "ok"
    /\ cpVal' = done
    /\ pc' = "sleep"
    /\ UNCHANGED <<config, harness, paced, logs, ts, dryRun, done, vi, si,
                   idx, apiKey, attempt, resp, exit, fails, waits, history>>

\* the next style without the sleep
Pace_NoSleep ==
    /\ pc = "sleep"
    /\ pc' = "loop"
    /\ si' = si + 1
    /\ UNCHANGED <<config, harness, paced, disk, ts, dryRun, done, vi, idx,
                   apiKey, attempt, resp, exit, fails, waits, history>>

\* time.sleep(DELAY_SECONDS), then the next style
Pace ==
    /\ pc = "sleep"
    /\ pc' = "loop"
    /\ si' = si + 1
    /\ paced' = paced + 1
    /\ UNCHANGED <<config, harness, disk, ts, dryRun, done, vi, idx, apiKey,
                   attempt, resp, exit, fails, waits, history>>

Unlinks_Always == cpState # "absent"

Unlinks_Strict == done > total /\ cpState # "absent"

\* if done >= total and CP_FILE.exists(): CP_FILE.unlink()
Unlinks == done >= total /\ cpState # "absent"

\* main returns and the process ends
Finish ==
    /\ pc = "end"
    /\ cpState' = IF Unlinks THEN "absent" ELSE cpState
    /\ cpVal' = IF Unlinks THEN 0 ELSE cpVal
    /\ Gone
    /\ exit' = "normal"
    /\ complete' = (done >= total)
    /\ UNCHANGED <<config, harness, paced, logs, ts, done, runs, kills,
                   invoked, ranNow, startDone>>

\* the process is killed, or dies of an unhandled error, where it stands
Kill ==
    /\ pc # "down"
    /\ Gone
    /\ done' = 0
    /\ exit' = "killed"
    /\ kills' = kills + 1
    /\ paced' = 0
    /\ UNCHANGED <<config, harness, disk, ts, runs, invoked, ranNow,
                   startDone, complete>>

Next ==
    \/ LaunchRefused
    \/ \E dry \in BOOLEAN, tick \in BOOLEAN : Launch(dry, tick)
    \/ LoadCheckpoint
    \/ OpenLog
    \/ OuterExit
    \/ InnerExit
    \/ Skip
    \/ Begin
    \/ \E o \in Outcomes : Attempt(o)
    \/ WriteRecord
    \/ SaveOpen
    \/ save_checkpoint
    \/ Pace
    \/ Finish
    \/ Kill

Spec == Init /\ [][Next]_vars

---------------------------------------------------------------------------
(* The credential rotator on its own, over the indices of a full run *)

KeyInit ==
    /\ role \in {"hr", "swe"}
    /\ numKeys \in REQUIRED_KEYS..MaxKeys
    /\ idx \in 1..MaxIdx
    /\ startDone \in {0, idx - 1}
    /\ done = startDone
    /\ pc = "key"
    /\ cpState = IF startDone = 0 THEN "absent" ELSE "ok"
    /\ cpVal = startDone
    /\ logs = <<>>
    /\ ts = 1
    /\ dryRun = FALSE
    /\ vi = 0
    /\ si = 0
    /\ apiKey = 0
    /\ attempt = 0
    /\ resp = <<>>
    /\ exit = "running"
    /\ runs = 1
    /\ kills = 0
    /\ invoked = NoCalls
    /\ ranNow = NoCalls
    /\ fails = 0
    /\ waits = <<>>
    /\ complete = FALSE
    /\ paced = 0
    /\ NoHarness

\* api_key = pick_api_key(idx_global), in a run that reached index idx
KeyPick ==
    /\ pc = "key"
    /\ apiKey' = pick_api_key(idx, numKeys)
    /\ pc' = "keyed"
    /\ UNCHANGED <<config, harness, paced, disk, ts, dryRun, done, vi, si,
                   idx, attempt, resp, exit, fails, waits, history>>

SpecKey == KeyInit /\ [][KeyPick]_vars

---------------------------------------------------------------------------
(* The response parser on its own: main's parsing lines applied to a text *)

\* what a generated text is made of
Atoms == {EO, EC, TO, TC, "0", "1", "2", " ", "x"}

Texts == UNION {[1..n -> Atoms] : n \in 0..MaxLen}

\* a batch of eleven candidates
Eleven == <<"a", "b", "c", "d", "e", "f", "g", "h", "i", "j", "k">>

\* "<explanation>Good fit.</explanation><top-3>2, 5, 5, 9</top-3>"
TaggedText ==
    <<EO, "Good", " ", "fit.", EC,
      TO, "2", ",", " ", "5", ",", " ", "5", ",", " ", "9", TC>>

\* "1, 99, 3"
BareText == <<"1", ",", " ", "9", "9", ",", " ", "3">>

\* an unclosed selection after a padded explanation, and a padded full one
ExampleTexts ==
    { TaggedText, BareText,
      <<EO, " ", "x", " ", EC, "y", TO, " ", "2", " ", "1", " ", TC, "3">>,
      <<"x", EO, "1", EC, TO, "0", ",", "4">>,
      <<"0", ",", "2", ",", "1", "4", ",", "2", ",", "1">>,
      <<"no", " ", "numbers">> }

ParseInit ==
    /\ role \in {"hr", "swe"}
    /\ \/ resp \in Texts /\ personaIds = variants[1].persona_ids
       \/ resp \in ExampleTexts /\ personaIds = Eleven
    /\ pc = "parse"
    /\ parsed = <<>>
    /\ numKeys = REQUIRED_KEYS
    /\ cpState = "absent"
    /\ cpVal = 0
    /\ logs = <<>>
    /\ ts = 0
    /\ dryRun = FALSE
    /\ done = 0
    /\ vi = 1
    /\ si = 1
    /\ idx = 1
    /\ apiKey = 0
    /\ attempt = 0
    /\ exit = "running"
    /\ runs = 1
    /\ kills = 0
    /\ invoked = NoCalls
    /\ ranNow = NoCalls
    /\ startDone = 0
    /\ fails = 0
    /\ waits = <<>>
    /\ complete = FALSE
    /\ paced = 0
    /\ mock = <<>>
    /\ dims = <<>>
    /\ again = 0

\* rat, selb and sel_ids computed from resp
ParseStep ==
    /\ pc = "parse"
    /\ parsed' = ParseResponse(role, resp, personaIds)
    /\ pc' = "parsed"
    /\ UNCHANGED <<config, disk, ts, dryRun, done, vi, si, idx, apiKey,
                   attempt, resp, exit, fails, waits, history, paced,
                   personaIds, mock, dims, again>>

SpecParse == ParseInit /\ [][ParseStep]_vars

---------------------------------------------------------------------------
(* The pipeline run to its end more than once, never killed, against a     *)
(* mocked invoker that answers each scenario the same way at every attempt *)

MockOutcomes ==
    { <<EO, "x", EC, TO, "2", ",", " ", "1", TC>>,
      <<" ", "x", " ", "1">>,
      Exc }

TwiceInit ==
    /\ role \in {"hr", "swe"}
    /\ numKeys = REQUIRED_KEYS
    /\ mock \in [1..total -> MockOutcomes]
    /\ cpState = "absent"
    /\ cpVal = 0
    /\ logs = <<>>
    /\ ts = 0
    /\ pc = "down"
    /\ dryRun = FALSE
    /\ done = 0
    /\ vi = 0
    /\ si = 0
    /\ idx = 0
    /\ apiKey = 0
    /\ attempt = 0
    /\ resp = <<>>
    /\ exit = "none"
    /\ runs = 0
    /\ kills = 0
    /\ invoked = NoCalls
    /\ ranNow = NoCalls
    /\ startDone = 0
    /\ fails = 0
    /\ waits = <<>>
    /\ complete = FALSE
    /\ paced = 0
    /\ personaIds = <<>>
    /\ parsed = <<>>
    /\ dims = <<>>
    /\ again = 0

\* the script is started once more after a run that completed; that run
\* slept DELAY_SECONDS at least once, so the clock reads a later second
LaunchAgain ==
    /\ pc = "down" /\ complete /\ runs < MaxRuns
    /\ KeysOk(numKeys)
    /\ runs' = runs + 1
    /\ ts' = ts + 1
    /\ pc' = "main"
    /\ dryRun' = FALSE
    /\ done' = 0
    /\ exit' = "running"
    /\ ranNow' = NoCalls
    /\ startDone' = 0
    /\ paced' = 0
    /\ complete' = FALSE
    /\ again' = again + 1
    /\ UNCHANGED <<config, personaIds, parsed, mock, dims, disk, vi, si, idx,
                   apiKey, attempt, resp, kills, invoked, fails, waits>>

\* one attempt against the mocked generate_content
MockAttempt == Attempt(mock[idx])

TwiceNext ==
    \/ \E dry \in BOOLEAN : Launch(dry, TRUE)
    \/ LaunchAgain
    \/ LoadCheckpoint
    \/ OpenLog
    \/ OuterExit
    \/ InnerExit
    \/ Skip
    \/ Begin
    \/ MockAttempt
    \/ WriteRecord
    \/ SaveOpen
    \/ save_checkpoint
    \/ Pace
    \/ Finish

SpecTwice == TwiceInit /\ [][TwiceNext]_vars

---------------------------------------------------------------------------
(* The two loops of main on their own, over inputs of any size: nv         *)
(* variants and ns styles                                                  *)

IdxInit ==
    /\ dims \in (1..MaxVariants) \X (1..MaxStyles)
    /\ role \in {"hr", "swe"}
    /\ pc = "loop"
    /\ vi = 1
    /\ si = 1
    /\ idx = 0
    /\ numKeys = REQUIRED_KEYS
    /\ cpState = "absent"
    /\ cpVal = 0
    /\ logs = <<>>
    /\ ts = 1
    /\ dryRun = FALSE
    /\ done = 0
    /\ apiKey = 0
    /\ attempt = 0
    /\ resp = <<>>
    /\ exit = "running"
    /\ runs = 1
    /\ kills = 0
    /\ invoked = NoCalls
    /\ ranNow = NoCalls
    /\ startDone = 0
    /\ fails = 0
    /\ waits = <<>>
    /\ complete = FALSE
    /\ paced = 0
    /\ personaIds = <<>>
    /\ parsed = <<>>
    /\ mock = <<>>
    /\ again = 0

IdxRest == <<config, disk, ts, dryRun, done, apiKey, attempt, resp, exit,
             fails, waits, history, paced, personaIds, parsed, mock, dims,
             again>>

\* the body of the inner loop: idx_global is computed for (vi, si)
IdxBody ==
    /\ pc = "loop" /\ vi <= dims[1] /\ si <= dims[2]
    /\ idx' = idx_of(vi, si, dims[2])
    /\ si' = si + 1
    /\ UNCHANGED <<pc, vi, IdxRest>>

\* the inner loop ends: next variant
IdxInner ==
    /\ pc = "loop" /\ vi <= dims[1] /\ si > dims[2]
    /\ vi' = vi + 1
    /\ si' = 1
    /\ UNCHANGED <<pc, idx, IdxRest>>

\* the outer loop ends
IdxOuter ==
    /\ pc = "loop" /\ vi > dims[1]
    /\ pc' = "end"
    /\ UNCHANGED <<vi, si, idx, IdxRest>>

IdxNext == IdxBody \/ IdxInner \/ IdxOuter

SpecIdx == IdxInit /\ [][IdxNext]_vars

---------------------------------------------------------------------------
(* What the claims speak of *)

\* every record of every log file, oldest first
RECURSIVE Concat(_)
Concat(files) ==
    IF files = <<>> THEN <<>>
    ELSE Concat(SubSeq(files, 1, Len(files) - 1)) \o files[Len(files)].recs

AllRecs == Concat(logs)

\* the global index a record's scenario_id stands for
GiOf(rec) ==
    LET v == CHOOSE v \in 1..Len(variants) :
                 variants[v].variant_id = rec.scenario[1]
        s == CHOOSE s \in 1..Len(style_items) : style_items[s] = rec.scenario[2]
    IN  idx_global(v, s)

\* how many records the log files hold for global index g
CountGi(g) == Cardinality({p \in 1..Len(AllRecs) : GiOf(AllRecs[p]) = g})

\* the global index of the last record flushed, 0 when there is none
LastLoggedGi == IF AllRecs = <<>> THEN 0 ELSE GiOf(AllRecs[Len(AllRecs)])

\* invoker calls for scenarios that had been invoked before
Reinvocations ==
    SumTo([g \in 1..total |-> IF invoked[g] > 1 THEN invoked[g] - 1 ELSE 0],
          total)

---------------------------------------------------------------------------
(* C1: once the logical run has completed, the log files together hold     *)
(* exactly one record for each global index 1..total, however the run was  *)
(* killed and resumed.  The code breaks this when the process dies between *)
(* the flush of a record and the write of its checkpoint.                  *)
C1_ExactlyOnce == complete => \A g \in 1..total : CountGi(g) = 1

(* C2: after a kill the checkpoint file holds the global index of the last *)
(* record flushed (absent when none was), and the run that resumes starts  *)
(* its first scenario at checkpoint + 1.                                   *)
C2_CheckpointIsLastLogged ==
    /\ (pc = "down" /\ exit = "killed") =>
          /\ cpState # "torn"
          /\ load_checkpoint = LastLoggedGi
    /\ (pc = "call" /\ SumTo(ranNow, total) = 1) =>
          idx = startDone + 1

(* C3: every global index up to the checkpoint value has a record in the   *)
(* log files, in every state, crashes and resumes included; the checkpoint *)
(* file is opened for writing only once the record of that index is there. *)
C3_CheckpointedAreLogged ==
    /\ cpState = "ok" => \A g \in 1..cpVal : CountGi(g) >= 1
    /\ pc = "savew" => \A g \in 1..done : CountGi(g) >= 1

C3_Witness ==
    /\ cpState = "ok" /\ cpVal >= 2
    /\ kills >= 1 /\ startDone >= 1
    /\ pc = "sleep"

(* C4: every write of the checkpoint stores a value strictly greater than  *)
(* the last one the file held (0 when it was absent), and the value goes   *)
(* down only by the deletion of the file at full completion.               *)
C4_CheckpointMonotone ==
    [][ /\ save_checkpoint => cpVal' > cpVal
        /\ cpVal' < cpVal => (pc = "end" /\ done >= total /\ cpState' = "absent")
      ]_vars

C4_Witness ==
    /\ pc = "sleep" /\ kills >= 1
    /\ startDone >= 1
    /\ cpState = "ok" /\ cpVal = startDone + 1

(* C5: a run that loaded checkpoint value k never invokes the model for a  *)
(* global index <= k, adds no record for it and writes no checkpoint value *)
(* <= k; when it ends normally it has invoked each of k+1..done once, and  *)
(* a run that is no dry run ends with done >= total.                       *)
C5_ResumeSkips ==
    /\ [](\A g \in 1..total : g <= startDone => ranNow[g] = 0)
    /\ [](exit = "normal" =>
            \A g \in 1..total :
               ranNow[g] = IF startDone < g /\ g <= done THEN 1 ELSE 0)
    /\ [][ /\ (pc # "down" /\ logs' # logs) =>
                \A g \in 1..total :
                   g <= startDone => CountGi(g)' = CountGi(g)
           /\ save_checkpoint => cpVal' > startDone
           /\ (pc = "end" /\ ~dryRun /\ pc' = "down" /\ exit' = "normal")
                => (complete' /\ done' >= total)
           /\ Skip => UNCHANGED <<disk, invoked, ranNow, done>>
         ]_vars

C5_Witness ==
    /\ exit = "normal" /\ complete
    /\ startDone >= 1
    /\ kills >= 1

(* C6: the scenarios invoked more than once are at most as many as the     *)
(* kills, and no scenario whose index the checkpoint file covers is        *)
(* invoked again.                                                          *)
C6_AtMostOneReexecuted ==
    /\ [](Reinvocations <= kills)
    /\ [][ \A g \in 1..total :
             (cpState \in {"ok", "torn"} /\ g <= cpVal)
                => invoked'[g] = invoked[g] ]_vars

C6_Witness ==
    /\ Reinvocations = 1
    /\ kills = 1
    /\ pc = "sleep"

(* C7: a scenario whose invoker call failed still gets its record, with    *)
(* empty response_text and empty selected_persona_ids, and its checkpoint: *)
(* after the write the last record of the file is the scenario's and holds *)
(* resp, after the checkpoint write the file holds idx, the next scenario  *)
(* is invoked with the checkpoint at idx - 1 whatever the response before  *)
(* it was, and no record with an empty response_text has a selection.      *)
C7_FailedCallsAreLogged ==
    /\ \A p \in 1..Len(AllRecs) :
          AllRecs[p].response_text = <<>>
             => AllRecs[p].selected_persona_ids = <<>>
    /\ pc \in {"save", "savew", "sleep"} =>
          /\ AllRecs # <<>>
          /\ GiOf(AllRecs[Len(AllRecs)]) = idx
          /\ AllRecs[Len(AllRecs)].response_text = resp
    /\ pc = "sleep" => (cpState = "ok" /\ cpVal = idx /\ done = idx)
    /\ pc \in {"call", "write"} =>
          (cpState # "torn" /\ load_checkpoint = idx - 1 /\ done = idx - 1)

C7_Witness ==
    /\ pc = "sleep" /\ resp # <<>>
    /\ idx = 2 /\ kills = 0
    /\ Len(AllRecs) = 2
    /\ AllRecs[1].response_text = <<>>

(* C8: the invoker makes at most MAX_RETRIES attempts, returns at the      *)
(* first accepted attempt with that non-empty text, returns the empty      *)
(* string exactly when MAX_RETRIES attempts failed, and a process inside   *)
(* it ends only by being killed.                                           *)
C8_InvokerRetries ==
    /\ [](pc = "call" => (attempt <= MAX_RETRIES /\ fails = attempt - 1))
    /\ [](pc = "write" =>
            /\ attempt <= MAX_RETRIES
            /\ (resp = <<>>) <=> (fails = MAX_RETRIES)
            /\ resp # <<>> => (Validate(role, resp) /\ attempt = fails + 1)
            /\ resp = <<>> => attempt = MAX_RETRIES)
    /\ [][ (pc = "call" /\ pc' = "down") => exit' = "killed" ]_vars

C8_Witness == pc = "write" /\ resp = <<>> /\ fails = MAX_RETRIES

(* C9: when a run of main has ended normally, the checkpoint file is       *)
(* absent if done >= total, and otherwise holds done, the last global      *)
(* index processed.                                                        *)
C9_CheckpointAtNormalEnd ==
    exit = "normal" =>
        /\ done >= total => cpState = "absent"
        /\ done < total => (cpState = "ok" /\ cpVal = done /\ done >= 1)

C9_Witness ==
    /\ exit = "normal" /\ ~complete
    /\ cpState = "ok" /\ cpVal = Len(style_items)

(* C10: the slot used for global index i is b mod numKeys, where b is the  *)
(* number of whole blocks of PROMPTS_PER_KEY indices before i, whatever    *)
(* checkpoint the run resumed from; with two keys, 1..450 use slot 0,      *)
(* 451..900 slot 1 and 901..1350 slot 0.                                   *)
C10_Rotation ==
    pc = "keyed" =>
        /\ \E b \in 0..idx :
              /\ b * PROMPTS_PER_KEY < idx
              /\ idx <= (b + 1) * PROMPTS_PER_KEY
              /\ apiKey = b % numKeys
        /\ numKeys = 2 =>
              /\ idx \in 1..450 => apiKey = 0
              /\ idx \in 451..900 => apiKey = 1
              /\ idx \in 901..1350 => apiKey = 0

C10_Witness ==
    /\ pc = "keyed" /\ numKeys = 2
    /\ idx = 451 /\ startDone = 450
    /\ apiKey = 1


(* C11: parsing "<explanation>Good fit.</explanation><top-3>2, 5, 5,        *)
(* 9</top-3>" against the persona ids a..k gives the rationale "Good fit." *)
(* and the selection b, e, j, in both entry points.  The code resolves the *)
(* 1-based position 9 to the ninth id, i.                                  *)
C11_RoundTrip ==
    (pc = "parsed" /\ resp = TaggedText /\ personaIds = Eleven) =>
        /\ parsed.rat = <<"Good", " ", "fit.">>
        /\ parsed.sel = <<"b", "e", "j">>

(* C11, amended: the same parse gives the rationale "Good fit." and the    *)
(* selection b, e, i: the duplicate position 5 is collapsed, the order of  *)
(* first mention is kept.                                                  *)
C11_RoundTripAmended ==
    (pc = "parsed" /\ resp = TaggedText /\ personaIds = Eleven) =>
        /\ parsed.rat = <<"Good", " ", "fit.">>
        /\ parsed.sel = <<"b", "e", "i">>

C11_Witness ==
    /\ pc = "parsed"
    /\ resp = TaggedText
    /\ personaIds = Eleven
    /\ parsed.selb = <<"2", ",", " ", "5", ",", " ", "5", ",", " ", "9">>
    /\ Len(parsed.sel) = 3


\* the integer tokens of the selection region, left to right
Tokens == findall_ints(parsed.selb)

\* the position of the first token that names persona id x, 0 when none does
FirstMention(x) ==
    LET at == {p \in 1..Len(Tokens) :
                 /\ 1 <= Tokens[p]
                 /\ Tokens[p] <= Len(personaIds)
                 /\ personaIds[Tokens[p]] = x}
    IN  IF at = {} THEN 0 ELSE Min(at)

(* C12: parse_selection reads each integer token as a 1-based position:    *)
(* the result holds exactly the ids at the positions named that lie in     *)
(* 1..len(persona_ids), each once, in the order of first mention; position *)
(* 0 and positions beyond the list are dropped; "1, 99, 3" against eleven  *)
(* candidates gives the first and the third id; no digits give the empty   *)
(* list.                                                                   *)
C12_ParseSelection ==
    pc = "parsed" =>
        LET sel == parsed.sel
        IN  /\ \A p \in 1..Len(sel) : FirstMention(sel[p]) > 0
            /\ \A p \in 1..Len(Tokens) :
                  (1 <= Tokens[p] /\ Tokens[p] <= Len(personaIds))
                      => InSeq(personaIds[Tokens[p]], sel)
            /\ \A p, q \in 1..Len(sel) :
                  p < q => /\ sel[p] # sel[q]
                           /\ FirstMention(sel[p]) < FirstMention(sel[q])
            /\ Tokens = <<>> => sel = <<>>
            /\ (parsed.selb = BareText /\ personaIds = Eleven)
                  => sel = <<Eleven[1], Eleven[3]>>

\* "0,2,14,2,1": position 0, a position beyond the list, a repeated one
C12_Witness ==
    /\ pc = "parsed"
    /\ personaIds = Eleven
    /\ \E p \in 1..Len(Tokens) : Tokens[p] = 0
    /\ \E p \in 1..Len(Tokens) : Tokens[p] > Len(personaIds)
    /\ \E p, q \in 1..Len(Tokens) : p < q /\ Tokens[p] = 2 /\ Tokens[q] = 2
    /\ parsed.sel = <<"b", "a">>


\* an explanation region followed by a closed top-3 region
TwoTag(txt) ==
    \E i, j, k, l \in 1..Len(txt) :
        /\ i < j /\ j < k /\ k < l
        /\ txt[i] = EO /\ txt[j] = EC /\ txt[k] = TO /\ txt[l] = TC

(* C13: a non-empty response without the two-tag structure is parsed with  *)
(* an empty rationale and the whole raw text as the selection region, so   *)
(* every integer of the response that is a position of the list selects    *)
(* its persona id; the response is not discarded.                          *)
C13_Fallback ==
    (pc = "parsed" /\ resp # <<>> /\ ~TwoTag(resp)) =>
        /\ parsed.rat = <<>>
        /\ parsed.selb = resp
        /\ \A p \in 1..Len(findall_ints(resp)) :
              LET n == findall_ints(resp)[p]
              IN  (1 <= n /\ n <= Len(personaIds))
                      => InSeq(personaIds[n], parsed.sel)

\* "x<explanation>1</explanation><top-3>0,4": the top-3 region is not closed
C13_Witness ==
    /\ pc = "parsed"
    /\ resp = <<"x", EO, "1", EC, TO, "0", ",", "4">>
    /\ ~TwoTag(resp)
    /\ parsed.rat = <<>>
    /\ parsed.sel = <<"a", "c", "d">>


\* the structural markers: an explanation region and, after it, a top-3
\* region
HasMarkers(txt) ==
    \E i, j, k \in 1..Len(txt) :
        /\ i < j /\ j < k
        /\ txt[i] = EO /\ txt[j] = EC /\ txt[k] = TO

(* C14: in both entry points the invoker returns an attempt's output only  *)
(* if it holds the structural markers and at least one digit.  The SWE     *)
(* invoker tests for a digit alone.                                        *)
C14_AcceptedHasMarkers ==
    (pc = "write" /\ resp # <<>>) => (HasMarkers(resp) /\ AnyDigit(resp))


(* C15: with fewer than two credentials configured the program stops at    *)
(* startup: no process gets as far as reading the checkpoint, no model     *)
(* invocation is made, and no run-log file, record or checkpoint is        *)
(* written.                                                                *)
C15_TooFewKeysFatal ==
    numKeys < REQUIRED_KEYS =>
        /\ pc = "down"
        /\ exit \in {"none", "config"}
        /\ startDone = 0
        /\ invoked = NoCalls
        /\ logs = <<>>
        /\ cpState = "absent"

C15_Witness ==
    /\ numKeys = REQUIRED_KEYS - 1
    /\ exit = "config"
    /\ runs = MaxRuns
    /\ logs = <<>>


\* the scenarios this process has executed or is executing
Executed == SumTo(ranNow, total)

(* C16: the pacing delay happens exactly once per executed scenario, after *)
(* the invoker has returned (whatever the number of attempts) and the      *)
(* checkpoint of the scenario is in the file; a skipped scenario incurs no *)
(* delay.                                                                  *)
C16_Pacing ==
    /\ [](pc \in {"call", "write", "save", "savew", "sleep"}
            => (ranNow[idx] = 1 /\ paced + 1 = Executed))
    /\ [](pc \in {"loop", "end"} => paced = Executed)
    /\ [](exit = "normal" => paced = Executed)
    /\ [](\A g \in 1..total : g <= startDone => ranNow[g] = 0)
    /\ [][ /\ paced' > paced =>
                /\ paced' = paced + 1
                /\ pc = "sleep" /\ pc' = "loop"
                /\ attempt = 0
                /\ cpState = "ok" /\ cpVal = idx
                /\ LastLoggedGi = idx
           /\ (pc = "loop" /\ pc' = "loop") => paced' = paced
           /\ pc = "call" => paced' <= paced ]_vars

\* a resumed run that skipped two scenarios and executed the other two, one
\* of them by a failed retry sequence
C16_Witness ==
    /\ exit = "normal"
    /\ complete
    /\ startDone = 2
    /\ paced = 2
    /\ \E p \in 1..Len(AllRecs) : AllRecs[p].response_text = <<>>


\* the global indices of the records of one file, in file order
GiSeq(recs) == [p \in 1..Len(recs) |-> GiOf(recs[p])]

(* C17: two full uninterrupted runs over the same inputs and a             *)
(* deterministic invoker: the second starts with no checkpoint file, as    *)
(* the first did, and each logs every global index of 1..total once; the   *)
(* two logs differ in nothing but the timestamps.                          *)
C17_IdempotentRerun ==
    /\ []((again = 1 /\ complete /\ runs = 2) =>
            /\ Len(logs) = 2
            /\ GiSeq(logs[1].recs) = [g \in 1..total |-> g]
            /\ GiSeq(logs[2].recs) = [g \in 1..total |-> g]
            /\ logs[2].recs = logs[1].recs
            /\ logs[2].ts # logs[1].ts)
    /\ [][again' > again => cpState = "absent"]_vars

\* both runs done, with a scenario that failed every attempt and one that
\* was answered
C17_Witness ==
    /\ again = 1 /\ complete /\ runs = 2
    /\ Len(logs) = 2
    /\ Len(logs[2].recs) = total
    /\ \E p, q \in 1..total :
          /\ logs[2].recs[p].response_text = <<>>
          /\ logs[2].recs[q].selected_persona_ids # <<>>


\* the positions of a process between the start of a scenario and its sleep
InScenario == pc \in {"call", "write", "save", "savew", "sleep"}

(* C18: scenarios are executed one at a time in increasing global index    *)
(* order, each through credential selection, invocation with its retries,  *)
(* parsing and log append with flush, checkpoint write and pacing delay,   *)
(* in that order; an invocation starts only when the checkpoint file holds *)
(* the index just before it.                                               *)
C18_Sequential ==
    [][ /\ (pc' = "call" /\ pc # "call") =>
              /\ pc = "loop"
              /\ idx' > idx
              /\ apiKey' = ((idx' - 1) \div PROMPTS_PER_KEY) % numKeys
              /\ cpState # "torn" /\ load_checkpoint = idx' - 1
              /\ \A g \in 1..(idx' - 1) : CountGi(g) >= 1
        /\ (pc = "call" /\ pc' # "down") =>
              /\ pc' \in {"call", "write"}
              /\ UNCHANGED <<disk, idx, apiKey>>
        /\ pc' = "write" => pc = "call"
        /\ (pc = "write" /\ pc' # "down") =>
              /\ pc' = "save"
              /\ Len(AllRecs') = Len(AllRecs) + 1
              /\ LastLoggedGi' = idx
              /\ AllRecs'[Len(AllRecs')].response_text = resp
              /\ UNCHANGED <<cpState, cpVal, idx>>
        /\ pc' = "save" => pc = "write"
        /\ (pc = "save" /\ pc' # "down") => (pc' = "savew" /\ logs' = logs)
        /\ pc' = "savew" => pc = "save"
        /\ (pc = "savew" /\ pc' # "down") =>
              /\ pc' = "sleep"
              /\ cpState' = "ok" /\ cpVal' = idx
              /\ UNCHANGED <<logs, idx>>
        /\ pc' = "sleep" => pc = "savew"
        /\ (pc = "sleep" /\ pc' # "down") =>
              /\ pc' = "loop"
              /\ paced' = paced + 1
              /\ UNCHANGED <<disk, idx>>
        /\ (~InScenario /\ pc' # "call") =>
              (AllRecs' = AllRecs /\ invoked' = invoked)
      ]_vars

\* the second scenario of a process is at its sleep
C18_Witness ==
    /\ pc = "sleep"
    /\ Executed = 2
    /\ idx = startDone + 2
    /\ cpState = "ok" /\ cpVal = idx
    /\ LastLoggedGi = idx


\* sequence a is the beginning of sequence b
IsPrefix(a, b) == Len(a) <= Len(b) /\ SubSeq(b, 1, Len(a)) = a

(* C19: the run log is append-only: every step leaves each log file in     *)
(* place with its earlier records as a prefix of its later ones; and       *)
(* within one log file the records are in strictly increasing global index *)
(* order.  The order fails where C1 fails: a process killed between the    *)
(* flush and the checkpoint write and started again within the same second *)
(* appends the same index to the same file.                                *)
C19_AppendOnly ==
    /\ [][ /\ Len(logs') >= Len(logs)
           /\ \A f \in 1..Len(logs) :
                 /\ logs'[f].ts = logs[f].ts
                 /\ IsPrefix(logs[f].recs, logs'[f].recs) ]_vars
    /\ [](\A f \in 1..Len(logs) :
            \A p, q \in 1..Len(logs[f].recs) :
                p < q => GiOf(logs[f].recs[p]) < GiOf(logs[f].recs[q]))


(* C20: idx_global = (vi - 1) * #styles + si maps the pairs of a variant   *)
(* position and a style position one-to-one onto 1..(#variants x #styles), *)
(* and the variant-major, style-minor loops meet the indices in increasing *)
(* order: 1, 2, ... up to the product.                                     *)
C20_IndexBijection ==
    /\ [](LET nv == dims[1]
              ns == dims[2]
          IN  /\ \A v \in 1..nv, s \in 1..ns :
                    idx_of(v, s, ns) \in 1..(nv * ns)
              /\ \A g \in 1..(nv * ns) :
                    Cardinality({vs \in (1..nv) \X (1..ns) :
                                    idx_of(vs[1], vs[2], ns) = g}) = 1
              /\ pc = "end" => idx = nv * ns)
    /\ [][idx' # idx => idx' = idx + 1]_vars

\* three variants of two styles enumerated to the end
C20_Witness ==
    /\ pc = "end"
    /\ dims = <<3, 2>>
    /\ idx = 6


\* the sleeps w are those of BACKOFF_BASE^1, BACKOFF_BASE^2, ... seconds:
\* the first is one and a half seconds, each next one and a half times the
\* one before
IsExponential(w) ==
    \A a \in 1..Len(w) :
        IF a = 1
        THEN w[a][1] * 2 = 3 * w[a][2]
        ELSE w[a][1] * w[a - 1][2] * 2 = 3 * w[a - 1][1] * w[a][2]

(* C21: inside the invoker a failed attempt a < MAX_RETRIES is followed by *)
(* exactly one backoff wait, of BACKOFF_BASE^a, before attempt a + 1; a    *)
(* successful attempt and the last failed attempt are followed by none, so *)
(* a call with f failed attempts has waited min(f, MAX_RETRIES - 1) times. *)
C21_Backoff ==
    /\ [](pc = "call" => (Len(waits) = attempt - 1 /\ fails = attempt - 1))
    /\ [](pc = "write" =>
            Len(waits) = IF fails < MAX_RETRIES THEN fails
                         ELSE MAX_RETRIES - 1)
    /\ [](IsExponential(waits))
    /\ [][ /\ (pc = "call" /\ fails' = fails + 1 /\ attempt < MAX_RETRIES) =>
                /\ Len(waits') = Len(waits) + 1
                /\ SubSeq(waits', 1, Len(waits)) = waits
                /\ attempt' = attempt + 1
                /\ pc' = "call"
           /\ (pc = "call" /\ pc' = "write") => waits' = waits
           /\ Len(waits') > Len(waits) =>
                (pc = "call" /\ fails' = fails + 1 /\ attempt < MAX_RETRIES)
         ]_vars

\* the call that failed every attempt has slept 1.5 s and 2.25 s
C21_Witness ==
    /\ pc = "write"
    /\ fails = MAX_RETRIES
    /\ waits = <<(<<3, 2>>), (<<9, 4>>)>>


\* latest_log(role): the last of the role's log files sorted by name, which
\* is the one with the greatest timestamp
latest_log ==
    CHOOSE f \in 1..Len(logs) :
        \A g \in 1..Len(logs) : logs[g].ts <= logs[f].ts

\* a process is running and has opened its run log
LogOpened == pc \notin {"down", "main", "open"}

(* C22: a process appends only to the log file named from its own start    *)
(* timestamp, never to a file of an earlier run: a run resumed from        *)
(* checkpoint k > 0 writes records for global indices above k only, so the *)
(* newest log file of the role holds no record for 1..k.  The code names   *)
(* the file by the second: a run started in the second of the run before   *)
(* appends to that run's file.                                             *)
C22_OwnLogFile ==
    /\ [][AllRecs' # AllRecs =>
            /\ Len(logs') = Len(logs)
            /\ logs'[Len(logs)].ts = ts
            /\ GiOf(AllRecs'[Len(AllRecs')]) > startDone
            /\ \A f \in 1..(Len(logs) - 1) : logs'[f] = logs[f]]_vars
    /\ []((LogOpened /\ startDone > 0) =>
            \A p \in 1..Len(logs[latest_log].recs) :
                GiOf(logs[latest_log].recs[p]) > startDone)


\* resp is a text the HR invoker returns when the model answers it
ReturnedByHR == role = "hr" /\ Accepted(resp) /\ Strip(resp) = resp

(* C23: in the HR runner every response the invoker accepts (TAG_RE) is    *)
(* matched by the two-tag extraction pattern of the loop, so it is never   *)
(* parsed through the whole-text fallback and the integers of its          *)
(* explanation region select nothing.  TAG_RE asks for a digit after       *)
(* "<top-3>" but for no "</top-3>": a response cut short before the        *)
(* closing tag is accepted and parsed whole.                               *)
C23_AcceptedIsTwoTag ==
    (pc = "parsed" /\ ReturnedByHR) =>
        /\ TwoTag(resp)
        /\ parsed.selb # resp
        /\ parsed.sel = parse_selection(Strip(EXPL_RE(resp).g2), personaIds)

====
